---- MODULE Spec2Model ----
(***************************************************************************)
(* Call analysis backend: the background pipeline of backend/api.py        *)
(* (process_audio_file, update_progress, ConnectionManager), the speaker   *)
(* attribution of src/audio_transcriber.py, the conversation analysis of   *)
(* src/analyzer.py and the storage of backend/database.py.                 *)
(*                                                                         *)
(* Python dicts are records or functions whose DOMAIN is the key set; a    *)
(* str is a sequence of one-character strings; times are in half seconds.  *)
(***************************************************************************)
EXTENDS Integers, Sequences, FiniteSets, TLC

\* ------------------------------------------------------------------------
\* Bounds of the model
\* ------------------------------------------------------------------------
\* most segments in one engine output
MaxSegs == 3
\* most classifier stages that raise in one analysis
MaxFaults == 1

Jobs == {"j1", "j2"}
Conns == {"w1", "w2"}

VARIABLES
    processing_status,       \* api.processing_status: analysis_id -> status dict
    db_processing_status,    \* table processing_status: analysis_id -> row
    db_analysis_results,     \* table analysis_results: analysis_id -> row
    active_connections,      \* manager.active_connections
    ws,                      \* each websocket: "new", "open", "dead" (peer gone), "closed"
    nlp,                     \* audio_transcriber.nlp
    task,                    \* the arguments of each background task; the audio file is
                             \* what the speech engines make of it
    pc,                      \* where each process_audio_file task is suspended
    bcast,                   \* the broadcast each task is suspended in: update, list index, connection;
                             \* at_call: the list when broadcast was called; got: the connections
                             \* whose send_text has returned
    transcription,           \* local of process_audio_file
    transcription_result,    \* local of process_audio_file
    analysis_result,         \* local of process_audio_file
    success,                 \* local of process_audio_file
    log,                     \* every dict written to processing_status[analysis_id], in order
    http_status              \* status code of the last HTTP response (0: none yet)

vars == << processing_status, db_processing_status, db_analysis_results, active_connections, ws,
           nlp, task, pc, bcast, transcription, transcription_result, analysis_result, success, log,
           http_status >>

\* the value of a local that has not been assigned yet
Unset == [unset |-> TRUE]

\* ------------------------------------------------------------------------
\* Text
\* ------------------------------------------------------------------------
IsSpace(c) == c = " "

RECURSIVE LStrip(_)
LStrip(s) == IF s = <<>> THEN s
             ELSE IF IsSpace(Head(s)) THEN LStrip(Tail(s)) ELSE s

RECURSIVE RStrip(_)
RStrip(s) == IF s = <<>> THEN s
             ELSE IF IsSpace(s[Len(s)]) THEN RStrip(SubSeq(s, 1, Len(s) - 1)) ELSE s

\* str.strip()
Strip(s) == RStrip(LStrip(s))

\* ' '.join(texts)
RECURSIVE Join(_)
Join(texts) == IF texts = <<>> THEN <<>>
               ELSE IF Len(texts) = 1 THEN texts[1]
               ELSE texts[1] \o <<" ">> \o Join(Tail(texts))

\* texts the speech engine may put in a segment
RawTexts == { <<" ">>, <<"a">>, <<" ", "b", " ">> }
\* start times the speech engine may give a segment
StartTimes == {0, 6}
SegmentSpan == 2

RawSegments == { [start |-> s, end |-> s + SegmentSpan, text |-> t] : s \in StartTimes, t \in RawTexts }

SeqsUpTo(S, n) == UNION { [1..k -> S] : k \in 0..n }

\* ------------------------------------------------------------------------
\* AudioTranscriber.transcribe_with_whisper
\* ------------------------------------------------------------------------
\* What the speech engines do with one audio file:
\*   whisper   - Whisper returns the raw segments
\*   sr        - Whisper is absent or failed; recognize_google returns text
\*   sr_error  - the fallback recogniser raises inside its try block
\*   raise     - convert_to_wav or sr.AudioFile raises
WhisperOutputs(n) == { [engine |-> "whisper", segments |-> ss] : ss \in SeqsUpTo(RawSegments, n) }
FallbackOutputs == { [engine |-> "sr", text |-> t, duration |-> 8] : t \in RawTexts }
                     \cup { [engine |-> "sr_error"], [engine |-> "raise"] }

AllEngineOutputs == WhisperOutputs(MaxSegs) \cup FallbackOutputs

\* the few outputs the two-job pipeline specification draws from
PipelineEngineOutputs ==
    { [engine |-> "whisper", segments |-> << >>],
      [engine |-> "whisper", segments |-> << [start |-> 0, end |-> 2, text |-> <<"a">>] >>],
      [engine |-> "whisper", segments |-> << [start |-> 0, end |-> 2, text |-> <<" ">>],
                                             [start |-> 6, end |-> 8, text |-> <<"a">>] >>],
      [engine |-> "sr_error"],
      [engine |-> "raise"] }

Raises(o) == o.engine = "raise"

StripSegment(seg) == [start |-> seg.start, end |-> seg.end, text |-> Strip(seg.text)]

transcribe_with_speechrecognition(o) ==
    IF o.engine = "sr"
    THEN [ full_text |-> o.text,
           segments  |-> IF Strip(o.text) # <<>>
                         THEN << [start |-> 0, end |-> o.duration, text |-> Strip(o.text)] >>
                         ELSE << >>,
           duration  |-> o.duration ]
    ELSE [ full_text |-> <<>>, segments |-> << >>, duration |-> 0, error |-> "sr failed" ]

\* the dict transcribe_with_whisper returns when it does not raise
transcribe_with_whisper(o) ==
    IF o.engine = "whisper"
    THEN LET segments == [i \in 1..Len(o.segments) |-> StripSegment(o.segments[i])]
         IN [ full_text |-> Join([i \in 1..Len(o.segments) |-> o.segments[i].text]),
              segments  |-> segments,
              duration  |-> IF segments # << >> THEN segments[Len(segments)].end ELSE 0 ]
    ELSE transcribe_with_speechrecognition(o)

\* ------------------------------------------------------------------------
\* The spaCy text classifier (self.nlp)
\* ------------------------------------------------------------------------
StrippedTexts == { Strip(t) : t \in RawTexts } \ { <<>> }

ConfidenceThreshold == 7

\* doc.cats for one text, in tenths; Raise: self.nlp(text) raises
Raise == [raises |-> TRUE]
Cats(c) == [raises |-> FALSE, scores |-> c]
DocOutcomes ==
    { Raise,
      Cats(<< >>),
      Cats([l \in {"Agent", "Customer"} |-> IF l = "Agent" THEN 9 ELSE 1]),
      Cats([l \in {"Agent", "Customer"} |-> IF l = "Agent" THEN 3 ELSE 7]),
      Cats([l \in {"Agent", "Customer"} |-> IF l = "Agent" THEN 4 ELSE 6]),
      Cats([l \in {"agent", "customer"} |-> IF l = "agent" THEN 8 ELSE 2]) }

NoNlp == [loaded |-> FALSE]
Classifiers ==
    { NoNlp, [loaded |-> TRUE, pipe_names |-> {"tagger", "parser", "ner"}] }
    \cup { [loaded |-> TRUE, pipe_names |-> {"textcat"}, doc |-> d] : d \in [StrippedTexts -> DocOutcomes] }

\* max(scores, key=scores.get)
TopLabel(scores) == CHOOSE l \in DOMAIN scores : \A m \in DOMAIN scores : scores[m] <= scores[l]

\* ------------------------------------------------------------------------
\* AudioTranscriber.perform_speaker_diarization
\* ------------------------------------------------------------------------
\* mutant: the alternation written from the Customer side
Alternate_customer_first(last_speaker) == IF last_speaker = "Customer" THEN "Agent" ELSE "Customer"

Alternate(last_speaker) == IF last_speaker = "Agent" THEN "Customer" ELSE "Agent"

\* the speaker of a segment that is not at index 0
AssignSpeaker(classifier, text, last_speaker) ==
    IF classifier.loaded /\ "textcat" \in classifier.pipe_names
    THEN LET doc == classifier.doc[text]
         IN IF doc.raises THEN Alternate(last_speaker)
            ELSE IF DOMAIN doc.scores # {}
                 THEN LET top_label == TopLabel(doc.scores)
                          confidence == doc.scores[top_label]
                      IN IF confidence >= ConfidenceThreshold
                         THEN top_label
                         ELSE Alternate(last_speaker)
                 ELSE Alternate(last_speaker)
    ELSE Alternate(last_speaker)

\* mutant: no segment is skipped
SkipSegment_never(segment) == FALSE

\* whether the loop body skips the segment
SkipSegment(segment) == Strip(segment.text) = <<>>

\* mutant: last_speaker is kept on the transcriber and not reset, so a run starts
\* from the last speaker of a run made before it
InitialLastSpeaker_stale ==
    IF \E j \in Jobs : transcription_result[j] # Unset /\ transcription_result[j].dialogue # << >>
    THEN LET j == CHOOSE k \in Jobs : transcription_result[k] # Unset
                                       /\ transcription_result[k].dialogue # << >>
             d == transcription_result[j].dialogue
         IN d[Len(d)].speaker
    ELSE "None"

\* last_speaker before the loop
InitialLastSpeaker == "None"

\* one run of the for loop from index i (0-based), with the locals of the run
RECURSIVE DiarizeLoop(_, _, _, _, _)
DiarizeLoop(classifier, segments, i, last_speaker, speaker_segments) ==
    IF i >= Len(segments) THEN speaker_segments
    ELSE LET segment == segments[i + 1]
             text == Strip(segment.text)
         IN IF SkipSegment(segment)
            THEN DiarizeLoop(classifier, segments, i + 1, last_speaker, speaker_segments)
            ELSE LET current_speaker == IF i = 0 THEN "Agent"
                                        ELSE AssignSpeaker(classifier, text, last_speaker)
                 IN DiarizeLoop(classifier, segments, i + 1, current_speaker,
                        Append(speaker_segments,
                               [ start    |-> segment.start,
                                 end      |-> segment.end,
                                 speaker  |-> current_speaker,
                                 duration |-> segment.end - segment.start,
                                 text     |-> text ]))

\* mutant: a second pass gives a segment between two segments of one speaker
\* that speaker
perform_speaker_diarization_smoothed(classifier, tr) ==
    IF "error" \in DOMAIN tr THEN << >>
    ELSE IF tr.segments = << >> THEN << >>
    ELSE LET d == DiarizeLoop(classifier, tr.segments, 0, InitialLastSpeaker, << >>)
         IN [i \in 1..Len(d) |->
                IF 1 < i /\ i < Len(d) /\ d[i - 1].speaker = d[i + 1].speaker
                THEN [d[i] EXCEPT !.speaker = d[i - 1].speaker]
                ELSE d[i]]

perform_speaker_diarization(classifier, tr) ==
    IF "error" \in DOMAIN tr THEN << >>
    ELSE IF tr.segments = << >> THEN << >>
    ELSE DiarizeLoop(classifier, tr.segments, 0, InitialLastSpeaker, << >>)

\* ------------------------------------------------------------------------
\* AudioTranscriber.speaker_with_diarization
\* ------------------------------------------------------------------------
speaker_with_diarization(classifier, tr) ==
    LET speaker_segments == perform_speaker_diarization(classifier, tr)
        dialogue_segments ==
            [i \in 1..Len(speaker_segments) |->
                [ start    |-> speaker_segments[i].start,
                  end      |-> speaker_segments[i].end,
                  speaker  |-> speaker_segments[i].speaker,
                  text     |-> speaker_segments[i].text,
                  duration |-> speaker_segments[i].end - speaker_segments[i].start ]]
        participants == { dialogue_segments[i].speaker : i \in 1..Len(dialogue_segments) }
    IN [ duration          |-> tr.duration,
         participants      |-> participants,
         participant_count |-> Cardinality(participants),
         dialogue          |-> dialogue_segments,
         full_text         |-> Join([i \in 1..Len(dialogue_segments) |-> dialogue_segments[i].text]),
         speaker_diarization |-> TRUE ]

\* ------------------------------------------------------------------------
\* CallAnalyzer.analyze_conversation
\* ------------------------------------------------------------------------
\* the stage calls of the try block, in the order they are made
Classifiers4 == << "intent", "sentiment", "topic", "summary" >>
ClassifierNames == { Classifiers4[i] : i \in 1..4 }
\* the sets of stage calls that would raise for one conversation
FaultSets == { F \in SUBSET ClassifierNames : Cardinality(F) <= MaxFaults }

\* the first stage call that raises
FirstFault(faults) == Classifiers4[CHOOSE i \in 1..4 : Classifiers4[i] \in faults
                                                    /\ \A k \in 1..(i - 1) : Classifiers4[k] \notin faults]

analyze_conversation(conversation, faults) ==
    IF faults = {}
    THEN [ industry             |-> conversation.industry,
           participants         |-> conversation.participants,
           intents              |-> "intents",
           sentiment_analysis   |-> "sentiment",
           overall_sentiment    |-> [label |-> "neutral"],
           topic_analysis       |-> "topics",
           quality_metrics      |-> [overall_score |-> 0],
           conversation_summary |-> "summary" ]
    ELSE [ error    |-> << "Analysis failed: ", FirstFault(faults) >>,
           industry |-> conversation.industry ]

\* ------------------------------------------------------------------------
\* CallAnalyzerDB
\* ------------------------------------------------------------------------
VALID_INDUSTRIES == { "eCommerce", "Telecom", "Healthcare", "Travel", "Real Estate" }

\* json.dumps / json.loads
JsonDumps(v) == << "json", v >>
JsonLoads(s) == s[2]

\* dict[key] = value
Put(d, key, value) == [x \in DOMAIN d \cup {key} |-> IF x = key THEN value ELSE d[x]]

\* mutant: the save reports its commit
CommittedReturn_true == "True"

\* the value save_analysis_result returns when the row is committed
CommittedReturn == "None"

\* save_analysis_result: the value returned and the row committed, if any.
\* db_fault: the INSERT or the commit raises sqlite3.Error
save_analysis_result(analysis_data, db_fault) ==
    IF analysis_data.industry \notin VALID_INDUSTRIES
    THEN [ret |-> "False", committed |-> FALSE]
    ELSE IF "conversation_summary" \notin DOMAIN analysis_data.analysis
    THEN [ret |-> "False", committed |-> FALSE]
    ELSE IF db_fault
    THEN [ret |-> "False", committed |-> FALSE]
    ELSE [ ret |-> CommittedReturn, committed |-> TRUE,
           row |-> [ analysis_id        |-> analysis_data.analysis_id,
                     industry           |-> analysis_data.industry,
                     duration           |-> analysis_data.duration,
                     participants       |-> analysis_data.participants,
                     sentiment          |-> analysis_data.sentiment,
                     transcription_text |-> analysis_data.transcription.full_text,
                     conversation_data  |-> JsonDumps(analysis_data.conversation),
                     intents_data       |-> JsonDumps(analysis_data.analysis.intents),
                     topics_data        |-> JsonDumps(analysis_data.analysis.topic_analysis),
                     summary            |-> analysis_data.analysis.conversation_summary ] ]

\* get_analysis_result: _row_to_analysis_dict is not a method of CallAnalyzerDB,
\* so the call on a found row raises AttributeError, which the except turns into None
get_analysis_result(analysis_id) ==
    IF analysis_id \in DOMAIN db_analysis_results THEN "None" ELSE "None"

\* `not value` for the values the pipeline tests
Falsy(value) == value \in { "None", "False" }

\* ------------------------------------------------------------------------
\* update_progress and ConnectionManager.broadcast
\* ------------------------------------------------------------------------
StatusUpdate(analysis_id, status, progress, stage, message) ==
    [ analysis_id |-> analysis_id, status |-> status, progress |-> progress,
      stage |-> stage, message |-> message, timestamp |-> "now" ]

\* the status_update of each update_progress call of process_audio_file
TranscriptionStarted(j)  == StatusUpdate(j, "processing", 10, "transcription", <<"Starting audio transcription...">>)
TranscriptionFailed(j)   == StatusUpdate(j, "error", 0, "transcription", <<"Failed to transcribe audio">>)
DiarizationStarted(j)    == StatusUpdate(j, "processing", 30, "transcription", <<"Starting Speaker Identification...">>)
DiarizationFailed(j)     == StatusUpdate(j, "error", 0, "transcription", <<"Failed to diarization">>)
AnalysisStarted(j)       == StatusUpdate(j, "processing", 50, "analysis", <<"Performing NLP analysis...">>)
\* mutant: the update after 50 reports 40
AnalyzingConversation_40(j) == StatusUpdate(j, "processing", 40, "saving", <<"Analyzing Conversation...">>)
AnalyzingConversation(j) == StatusUpdate(j, "processing", 60, "saving", <<"Analyzing Conversation...">>)
SavingResults(j)         == StatusUpdate(j, "processing", 80, "saving", <<"Saving analysis results...">>)
Visualizing(j)           == StatusUpdate(j, "processing", 90, "visualization", <<"Generating visualizations...">>)
\* mutant: the failed save is reported with the status still processing
SaveFailed_processing(j) == StatusUpdate(j, "processing", 90, "saving", <<"Failed to save analysis results">>)
SaveFailed(j)            == StatusUpdate(j, "error", 0, "saving", <<"Failed to save analysis results">>)
Completed(j)             == StatusUpdate(j, "completed", 100, "completed", <<"Analysis completed successfully!">>)
\* mutant: the error record keeps the progress reached
ProcessingFailed_keeps_progress(j, e) == StatusUpdate(j, "error", 90, "error", <<"Processing failed: ", e>>)
ProcessingFailed(j, e)   == StatusUpdate(j, "error", 0, "error", <<"Processing failed: ", e>>)

NoBcast == [k |-> "-", idx |-> 0, cur |-> "-", at_call |-> << >>, got |-> {}]

\* The part of the state one step of a task writes: rec, the last dict put in
\* processing_status[j] (Unset: none); db, the last row put in the table
\* processing_status (Unset: none); log, pc and bcast of the task.
Frame(j) == [rec |-> Unset, db |-> Unset, log |-> log[j], pc |-> pc[j], bcast |-> bcast[j]]

\* what follows the update_progress call k in process_audio_file:
\* the next update_progress call, the executor call awaited, or the return
NextUpdate(k) == CASE k = "AnalysisStarted" -> "AnalyzingConversation"
                   [] k = "SavingResults"   -> "Visualizing"
                   [] OTHER                 -> "-"
\* mutant: the save is awaited where the analysis should be
NextAwait_save_early(k) == CASE k = "TranscriptionStarted"  -> "transcribe"
                             [] k = "DiarizationStarted"    -> "diarize"
                             [] k = "AnalyzingConversation" -> "save"
                             [] k = "Visualizing"           -> "save"
                             [] OTHER                       -> "done"
NextAwait(k) == CASE k = "TranscriptionStarted"  -> "transcribe"
                  [] k = "DiarizationStarted"    -> "diarize"
                  [] k = "AnalyzingConversation" -> "analyze"
                  [] k = "Visualizing"           -> "save"
                  [] OTHER                       -> "done"

UpdateOf(j, k) == CASE k = "AnalyzingConversation" -> AnalyzingConversation(j)
                    [] k = "Visualizing"           -> Visualizing(j)

\* update_progress(status_update) called as call k, run up to the next await that
\* suspends: broadcast suspends at its first send; with no connection it returns
\* at once and the task runs on
RECURSIVE update_progress(_, _, _, _, _)
update_progress(j, k, status_update, f, connections) ==
    LET f1 == [f EXCEPT !.rec = status_update, !.log = Append(@, status_update)]
    IN IF connections # << >>
       THEN [f1 EXCEPT !.pc = "broadcast",
                       !.bcast = [k |-> k, idx |-> 1, cur |-> connections[1],
                                  at_call |-> connections, got |-> {}]]
       ELSE IF NextUpdate(k) # "-"
            THEN update_progress(j, NextUpdate(k), UpdateOf(j, NextUpdate(k)), f1, connections)
            ELSE [f1 EXCEPT !.pc = NextAwait(k), !.bcast = NoBcast]

\* broadcast of call k has returned
after_broadcast(j, k, f, connections) ==
    IF NextUpdate(k) # "-"
    THEN update_progress(j, NextUpdate(k), UpdateOf(j, NextUpdate(k)), f, connections)
    ELSE [f EXCEPT !.pc = NextAwait(k), !.bcast = NoBcast]

\* the except clause of process_audio_file for the exception e
except_handler(j, e, f, connections) ==
    update_progress(j, "ProcessingFailed", ProcessingFailed(j, e),
                    [f EXCEPT !.db = [status |-> "error", progress |-> 0,
                                      message |-> <<"Processing failed: ", e>>]],
                    connections)

\* list.remove(x): the first x leaves the list
RemoveFirst(list, x) ==
    LET i == CHOOSE k \in 1..Len(list) : list[k] = x /\ \A m \in 1..(k - 1) : list[m] # x
    IN SubSeq(list, 1, i - 1) \o SubSeq(list, i + 1, Len(list))

InList(list, x) == \E i \in 1..Len(list) : list[i] = x

\* mutant: one status dict is shared by all the entries
StoreStatus_shared(tracker, analysis_id, status_update) ==
    [x \in DOMAIN tracker \cup {analysis_id} |-> status_update]

\* mutant: the tracker is replaced by a dict with the one entry
StoreStatus_single(tracker, analysis_id, status_update) ==
    [x \in {analysis_id} |-> status_update]

\* processing_status[analysis_id] = status_update
StoreStatus(tracker, analysis_id, status_update) == Put(tracker, analysis_id, status_update)

\* the writes of one step of task j
Commit(j, f) ==
    /\ processing_status' = IF f.rec = Unset THEN processing_status
                            ELSE StoreStatus(processing_status, j, f.rec)
    /\ db_processing_status' = IF f.db = Unset THEN db_processing_status
                               ELSE Put(db_processing_status, j, f.db)
    /\ log' = [log EXCEPT ![j] = f.log]
    /\ pc' = [pc EXCEPT ![j] = f.pc]
    /\ bcast' = [bcast EXCEPT ![j] = f.bcast]

\* ------------------------------------------------------------------------
\* upload_audio
\* ------------------------------------------------------------------------
SubmittedIndustries == { "eCommerce", "general" }

\* mutant: the record written at submission is the first stage record
InitialStatus_transcribing(industry) ==
    [ status |-> "processing", progress |-> 10, stage |-> "transcription",
      message |-> <<"Starting audio transcription...">>, user_id |-> "default_user",
      industry |-> industry, source_file |-> "call.mp3", file_path |-> "call.wav" ]

InitialStatus(industry) ==
    [ status |-> "processing", progress |-> 0, stage |-> "upload",
      message |-> <<"File uploaded successfully">>, user_id |-> "default_user",
      industry |-> industry, source_file |-> "call.mp3", file_path |-> "call.wav" ]

\* mutant: the industry is not checked
IndustryRejected_never(industry) == FALSE

\* the industry check at the head of upload_audio
IndustryRejected(industry) == industry \notin VALID_INDUSTRIES

\* j is the uuid the request would be given
UploadAudio(j, files) ==
    /\ pc[j] = "new"
    /\ \E file \in files, industry \in SubmittedIndustries :
          IF IndustryRejected(industry)
          THEN /\ http_status' = 400
               /\ UNCHANGED << processing_status, db_processing_status, log, task, pc >>
          ELSE /\ processing_status' = StoreStatus(processing_status, j, InitialStatus(industry))
               /\ db_processing_status' = Put(db_processing_status, j,
                      [status |-> "processing", progress |-> 0, message |-> <<"File uploaded successfully">>])
               /\ log' = [log EXCEPT ![j] = Append(@, InitialStatus(industry))]
               /\ task' = [task EXCEPT ![j] = [audio |-> file, industry |-> industry, user_id |-> "default_user"]]
               /\ pc' = [pc EXCEPT ![j] = "queued"]
               /\ http_status' = 200
    /\ UNCHANGED << db_analysis_results, active_connections, ws, nlp, bcast,
                    transcription, transcription_result, analysis_result, success >>

\* ------------------------------------------------------------------------
\* process_audio_file, one action per resumption of the task
\* ------------------------------------------------------------------------
\* the task starts: first update_progress
Start(j) ==
    /\ UNCHANGED http_status
    /\ pc[j] = "queued"
    /\ Commit(j, update_progress(j, "TranscriptionStarted", TranscriptionStarted(j),
                                 Frame(j), active_connections))
    /\ UNCHANGED << db_analysis_results, active_connections, ws, nlp, task,
                    transcription, transcription_result, analysis_result, success >>

\* `not transcription` for a dict
EmptyDict(d) == DOMAIN d = {}

\* transcribe_with_whisper returns or raises
TranscribeReturns(j) ==
    /\ UNCHANGED http_status
    /\ pc[j] = "transcribe"
    /\ IF Raises(task[j].audio)
       THEN /\ Commit(j, except_handler(j, "transcribe_with_whisper", Frame(j), active_connections))
            /\ UNCHANGED transcription
       ELSE LET result == transcribe_with_whisper(task[j].audio)
            IN /\ transcription' = [transcription EXCEPT ![j] = result]
               /\ IF EmptyDict(result)
                  THEN Commit(j, update_progress(j, "TranscriptionFailed", TranscriptionFailed(j),
                                                 Frame(j), active_connections))
                  ELSE Commit(j, update_progress(j, "DiarizationStarted", DiarizationStarted(j),
                                                 Frame(j), active_connections))
    /\ UNCHANGED << db_analysis_results, active_connections, ws, nlp, task,
                    transcription_result, analysis_result, success >>

\* speaker_with_diarization returns; the industry is put in the result after the
\* next update_progress, before anything reads it
DiarizeReturns(j) ==
    /\ UNCHANGED http_status
    /\ pc[j] = "diarize"
    /\ LET result == speaker_with_diarization(nlp, transcription[j])
       IN IF EmptyDict(result)
          THEN /\ transcription_result' = [transcription_result EXCEPT ![j] = result]
               /\ Commit(j, update_progress(j, "DiarizationFailed", DiarizationFailed(j),
                                            Frame(j), active_connections))
          ELSE /\ transcription_result' = [transcription_result EXCEPT
                                              ![j] = Put(result, "industry", task[j].industry)]
               /\ Commit(j, update_progress(j, "AnalysisStarted", AnalysisStarted(j),
                                            Frame(j), active_connections))
    /\ UNCHANGED << db_analysis_results, active_connections, ws, nlp, task,
                    transcription, analysis_result, success >>

\* analyze_conversation returns
AnalyzeReturns(j, fault_sets) ==
    /\ UNCHANGED http_status
    /\ pc[j] = "analyze"
    /\ \E faults \in fault_sets :
          analysis_result' = [analysis_result EXCEPT
                                 ![j] = analyze_conversation(transcription_result[j], faults)]
    /\ Commit(j, update_progress(j, "SavingResults", SavingResults(j), Frame(j), active_connections))
    /\ UNCHANGED << db_analysis_results, active_connections, ws, nlp, task,
                    transcription, transcription_result, success >>

complete_analysis_data(j) ==
    [ analysis_id   |-> j,
      user_id       |-> task[j].user_id,
      industry      |-> task[j].industry,
      duration      |-> transcription_result[j].duration,
      participants  |-> Cardinality(transcription_result[j].participants),
      sentiment     |-> IF "overall_sentiment" \in DOMAIN analysis_result[j]
                        THEN analysis_result[j].overall_sentiment.label ELSE "neutral",
      transcription |-> transcription_result[j],
      conversation  |-> transcription_result[j].dialogue,
      analysis      |-> analysis_result[j] ]

\* save_analysis_result returns
SaveReturns(j, db_faults) ==
    /\ UNCHANGED http_status
    /\ pc[j] = "save"
    /\ \E db_fault \in db_faults :
          LET saved == save_analysis_result(complete_analysis_data(j), db_fault)
          IN /\ db_analysis_results' = IF saved.committed
                                       THEN Put(db_analysis_results, j, saved.row)
                                       ELSE db_analysis_results
             /\ success' = [success EXCEPT ![j] = saved.ret]
             /\ IF Falsy(saved.ret)
                THEN Commit(j, update_progress(j, "SaveFailed", SaveFailed(j), Frame(j), active_connections))
                ELSE Commit(j, update_progress(j, "Completed", Completed(j),
                         [Frame(j) EXCEPT !.db = [status |-> "completed", progress |-> 100,
                                                  message |-> <<"Analysis completed successfully">>]],
                         active_connections))
    /\ UNCHANGED << active_connections, ws, nlp, task,
                    transcription, transcription_result, analysis_result >>

\* whether send_text to the connection raises
SendFails(connection) == ws[connection] # "open"

\* The send_text a broadcast awaits returns or raises; the loop goes on to its
\* next send, or broadcast returns and the task runs on to its next await.
BroadcastResume(j) ==
    /\ UNCHANGED http_status
    /\ pc[j] = "broadcast"
    /\ LET b == bcast[j]
           failed == SendFails(b.cur)
       IN IF failed /\ ~InList(active_connections, b.cur)
          THEN \* list.remove raises ValueError out of broadcast and update_progress
               /\ IF b.k = "ProcessingFailed"
                  THEN /\ pc' = [pc EXCEPT ![j] = "crashed"]
                       /\ bcast' = [bcast EXCEPT ![j] = NoBcast]
                       /\ UNCHANGED << processing_status, db_processing_status, log >>
                  ELSE Commit(j, except_handler(j, "list.remove(x): x not in list",
                                                Frame(j), active_connections))
               /\ UNCHANGED active_connections
          ELSE LET connections == IF failed THEN RemoveFirst(active_connections, b.cur)
                                  ELSE active_connections
               IN /\ active_connections' = connections
                  /\ IF b.idx < Len(connections)
                     THEN /\ bcast' = [bcast EXCEPT ![j] = [b EXCEPT !.idx = b.idx + 1,
                                                                     !.cur = connections[b.idx + 1],
                                                                     !.got = IF failed THEN @
                                                                             ELSE @ \cup {b.cur}]]
                          /\ UNCHANGED << processing_status, db_processing_status, log, pc >>
                     ELSE Commit(j, after_broadcast(j, b.k, Frame(j), connections))
    /\ UNCHANGED << db_analysis_results, ws, nlp, task,
                    transcription, transcription_result, analysis_result, success >>

\* ------------------------------------------------------------------------
\* websocket_endpoint and ConnectionManager
\* ------------------------------------------------------------------------
\* manager.connect
WsConnect(c) ==
    /\ UNCHANGED http_status
    /\ ws[c] = "new"
    /\ ws' = [ws EXCEPT ![c] = "open"]
    /\ active_connections' = Append(active_connections, c)
    /\ UNCHANGED << processing_status, db_processing_status, db_analysis_results, nlp, task, pc,
                    bcast, transcription, transcription_result, analysis_result, success, log >>

\* the client goes away
WsPeerDisconnect(c) ==
    /\ UNCHANGED http_status
    /\ ws[c] = "open"
    /\ ws' = [ws EXCEPT ![c] = "dead"]
    /\ UNCHANGED << processing_status, db_processing_status, db_analysis_results, active_connections,
                    nlp, task, pc, bcast, transcription, transcription_result, analysis_result,
                    success, log >>

\* send_json raises WebSocketDisconnect in the endpoint: manager.disconnect, which
\* raises ValueError out of the endpoint when broadcast has removed the socket
WsEndpointDisconnect(c) ==
    /\ UNCHANGED http_status
    /\ ws[c] = "dead"
    /\ ws' = [ws EXCEPT ![c] = "closed"]
    /\ active_connections' = IF InList(active_connections, c)
                             THEN RemoveFirst(active_connections, c)
                             ELSE active_connections
    /\ UNCHANGED << processing_status, db_processing_status, db_analysis_results, nlp, task, pc,
                    bcast, transcription, transcription_result, analysis_result, success, log >>

\* the analysis_id in the path each websocket is opened with
analysis_id_of == [c \in Conns |-> IF c = "w1" THEN "j1" ELSE "j2"]

\* what one round of the endpoint's loop sends to its websocket: the dicts
\* given to send_json
PollMessage(c) ==
    IF analysis_id_of[c] \in DOMAIN processing_status
    THEN << processing_status[analysis_id_of[c]] >>
    ELSE << >>

\* ------------------------------------------------------------------------
\* get_analysis_status and clear_all_data
\* ------------------------------------------------------------------------
\* the fields of the response model ProcessingStatus, all required
ProcessingStatusFields == { "analysis_id", "status", "progress", "stage", "message" }

\* GET /api/status/{analysis_id}: 404 for an unknown id; ProcessingStatus(**status)
\* raises a validation error (500) when a required field is missing, and keeps
\* the fields of the model otherwise
get_analysis_status(analysis_id) ==
    IF analysis_id \notin DOMAIN processing_status
    THEN [status_code |-> 404]
    ELSE LET status == processing_status[analysis_id]
         IN IF ProcessingStatusFields \subseteq DOMAIN status
            THEN [status_code |-> 200, body |-> [x \in ProcessingStatusFields |-> status[x]]]
            ELSE [status_code |-> 500]

\* POST /api/database/clear-data. db_fault: a DELETE or the commit raises
ClearAllData(db_faults) ==
    /\ \E db_fault \in db_faults :
          IF db_fault
          THEN /\ http_status' = 500
               /\ UNCHANGED << processing_status, db_processing_status, db_analysis_results >>
          ELSE /\ processing_status' = << >>
               /\ db_processing_status' = << >>
               /\ db_analysis_results' = << >>
               /\ http_status' = 200
    /\ UNCHANGED << active_connections, ws, nlp, task, pc, bcast, transcription,
                    transcription_result, analysis_result, success, log >>

\* ------------------------------------------------------------------------
\* Specifications
\* ------------------------------------------------------------------------
InitWith(classifiers) ==
    /\ processing_status = << >>
    /\ db_processing_status = << >>
    /\ db_analysis_results = << >>
    /\ active_connections = << >>
    /\ ws = [c \in Conns |-> "new"]
    /\ nlp \in classifiers
    /\ task = [j \in Jobs |-> Unset]
    /\ pc = [j \in Jobs |-> "new"]
    /\ bcast = [j \in Jobs |-> NoBcast]
    /\ transcription = [j \in Jobs |-> Unset]
    /\ transcription_result = [j \in Jobs |-> Unset]
    /\ analysis_result = [j \in Jobs |-> Unset]
    /\ success = [j \in Jobs |-> "unset"]
    /\ log = [j \in Jobs |-> << >>]
    /\ http_status = 0

\* the resumptions of one task
Run(j, fault_sets, db_faults) ==
    \/ Start(j)
    \/ TranscribeReturns(j)
    \/ DiarizeReturns(j)
    \/ AnalyzeReturns(j, fault_sets)
    \/ SaveReturns(j, db_faults)
    \/ BroadcastResume(j)

Sockets ==
    \/ \E c \in Conns : WsConnect(c)
    \/ \E c \in Conns : WsPeerDisconnect(c)
    \/ \E c \in Conns : WsEndpointDisconnect(c)

\* The server with two jobs in flight and two websockets; no text classifier is
\* loaded, the files are the two of ServerFiles and no classifier stage raises
ServerFiles == { f \in PipelineEngineOutputs : f.engine = "raise" \/ (f.engine = "whisper" /\ Len(f.segments) = 2) }

Init == InitWith({NoNlp})

Next ==
    \/ \E j \in Jobs : UploadAudio(j, ServerFiles)
    \/ \E j \in Jobs : Run(j, {{}}, BOOLEAN)
    \/ Sockets

Spec == Init /\ [][Next]_vars

\* One job with every outcome of its stages, and two websockets
JobNext ==
    \/ UploadAudio("j1", PipelineEngineOutputs)
    \/ Run("j1", FaultSets, BOOLEAN)
    \/ Sockets

JobSpec == Init /\ [][JobNext]_vars

\* The event loop resumes a task whose awaited call has returned or raised
FairJobSpec == JobSpec /\ WF_vars(Run("j1", FaultSets, BOOLEAN))

\* One job and the administrator clearing the data at any time
ClearNext ==
    \/ JobNext
    \/ ClearAllData(BOOLEAN)

ClearSpec == Init /\ [][ClearNext]_vars

\* Speaker attribution: any classifier, any engine output; the same file is
\* uploaded a second time when its first job has ended; no websocket connects,
\* the classifier stages and the storage do not fail
AttrInit == InitWith(Classifiers)

UploadFirst == UploadAudio("j1", AllEngineOutputs)
UploadAgain == pc["j1"] \in {"done", "crashed"} /\ UploadAudio("j2", {task["j1"].audio})

AttrNext ==
    \/ UploadFirst
    \/ UploadAgain
    \/ \E j \in Jobs : Start(j)
    \/ \E j \in Jobs : TranscribeReturns(j)
    \/ \E j \in Jobs : DiarizeReturns(j)
    \/ \E j \in Jobs : AnalyzeReturns(j, {{}})
    \/ \E j \in Jobs : SaveReturns(j, {FALSE})

AttrSpec == AttrInit /\ [][AttrNext]_vars

\* ------------------------------------------------------------------------
\* Properties
\* ------------------------------------------------------------------------
Ended(j) == pc[j] \in {"done", "crashed"}

\* the dict a status read returns for the job
Record(j) == processing_status[j]

Dialogue(j) == transcription_result[j].dialogue

\* 1.5 s, the pause of assign_speakers_by_timing
PauseThreshold == 3

\* transcription, attribution and analysis returned results without an error
\* field, and the row of the job is committed
AllStagesSucceeded(j) ==
    /\ transcription[j] # Unset /\ "error" \notin DOMAIN transcription[j]
    /\ transcription_result[j] # Unset /\ "error" \notin DOMAIN transcription_result[j]
    /\ analysis_result[j] # Unset /\ "error" \notin DOMAIN analysis_result[j]
    /\ j \in DOMAIN db_analysis_results

\* C1: a job whose transcription, attribution, analysis and save all succeeded
\* (row committed) ends with the record (completed, 100, "completed")
C1_SuccessEndsCompleted ==
    \A j \in Jobs :
        (Ended(j) /\ AllStagesSucceeded(j))
        => /\ Record(j).status = "completed"
           /\ Record(j).progress = 100
           /\ Record(j).stage = "completed"

\* a record that ends the wait of a client: completed with a result that can be
\* read back, or error with a message
Terminal(j) ==
    /\ j \in DOMAIN processing_status
    /\ \/ Record(j).status = "completed" /\ get_analysis_result(j) # "None"
       \/ Record(j).status = "error" /\ Record(j).message # << >> /\ Record(j).message[1] # ""

\* C2: every submitted job eventually has a record that is completed with a
\* retrievable result or error with a non-empty message
C2_EventuallyTerminal == \A j \in Jobs : [](pc[j] # "new" => <>Terminal(j))

C2_Witness == /\ pc["j1"] = "done"
              /\ Record("j1").status = "error"
              /\ Record("j1").stage = "saving"
              /\ Terminal("j1")

\* the transcription stage failed: the dict returned carries an error field, is
\* empty, or the call raised
TranscriptionErrorDict(j) == transcription[j] # Unset /\ "error" \in DOMAIN transcription[j]
TranscriptionEmpty(j) == transcription[j] # Unset /\ EmptyDict(transcription[j])
TranscriptionRaised(j) ==
    \E i \in 1..Len(log[j]) : log[j][i] = ProcessingFailed(j, "transcribe_with_whisper")
TranscriptionFault(j) == TranscriptionErrorDict(j) \/ TranscriptionEmpty(j) \/ TranscriptionRaised(j)

\* C3: a fault of the transcription stage ends the job with the record
\* (error, "transcription", 0), and attribution, analysis and save never run
C3_TranscriptionFaultIsFatal ==
    \A j \in Jobs :
        TranscriptionFault(j)
        => /\ transcription_result[j] = Unset
           /\ analysis_result[j] = Unset
           /\ success[j] = "unset"
           /\ Ended(j) => /\ Record(j).status = "error"
                          /\ Record(j).stage = "transcription"
                          /\ Record(j).progress = 0

\* the save returned False for an analysis that had succeeded
SaveFailedAfterAnalysis(j) ==
    /\ success[j] = "False"
    /\ "error" \notin DOMAIN analysis_result[j]

\* C4: when the save fails after a successful analysis the job ends with the
\* record (error, "saving") and is never completed
C4_SaveFaultEndsInSaving ==
    \A j \in Jobs :
        SaveFailedAfterAnalysis(j)
        => /\ Record(j).status # "completed"
           /\ Ended(j) => (Record(j).status = "error" /\ Record(j).stage = "saving")

\* one classifier stage raised (the stages after it were never called), on a
\* conversation with a timeline and a duration
OneClassifierFault(j) ==
    /\ analysis_result[j] # Unset
    /\ "error" \in DOMAIN analysis_result[j]
    /\ Dialogue(j) # << >>
    /\ transcription_result[j].duration > 0

\* C5: a job in which exactly one classifier stage faults ends completed, with
\* a saved result that flags that stage and keeps the outputs of the others
C5_OneClassifierFaultCompletes ==
    \A j \in Jobs :
        (Ended(j) /\ OneClassifierFault(j))
        => /\ Record(j).status = "completed"
           /\ j \in DOMAIN db_analysis_results

\* C6: between two consecutive records written for a job that both have
\* status processing, the progress does not decrease
C6_ProgressNonDecreasing ==
    \A j \in Jobs : \A i \in 1..(Len(log[j]) - 1) :
        (log[j][i].status = "processing" /\ log[j][i + 1].status = "processing")
        => log[j][i].progress <= log[j][i + 1].progress

C6_Witness == /\ Len(log["j1"]) >= 7
              /\ \A i \in 1..7 : log["j1"][i].status = "processing"
              /\ log["j1"][7].progress = 90

\* C7: the first attributed segment of a timeline is Agent
C7_FirstSpeakerIsAgent ==
    \A j \in Jobs :
        (transcription_result[j] # Unset /\ Dialogue(j) # << >>)
        => Dialogue(j)[1].speaker = "Agent"

NoClassifier == ~nlp.loaded \/ "textcat" \notin nlp.pipe_names

\* C8: with no classifier configured the k-th attributed segment (from 0) is
\* Agent for even k and Customer for odd k
C8_StrictAlternation ==
    \A j \in Jobs :
        (NoClassifier /\ transcription_result[j] # Unset)
        => \A k \in 1..Len(Dialogue(j)) :
              Dialogue(j)[k].speaker = IF (k - 1) % 2 = 0 THEN "Agent" ELSE "Customer"

\* three attributed segments, the first gap above the pause and the second below
C8_Witness ==
    /\ NoClassifier
    /\ transcription_result["j1"] # Unset
    /\ Len(Dialogue("j1")) = 3
    /\ Dialogue("j1")[2].start - Dialogue("j1")[1].end > PauseThreshold
    /\ Dialogue("j1")[3].start - Dialogue("j1")[2].end <= PauseThreshold

NonBlank(segment) == Strip(segment.text) # <<>>

\* start, end and trimmed text of each segment
Spans(segments) ==
    [i \in 1..Len(segments) |-> [ start |-> segments[i].start, end |-> segments[i].end,
                                  text |-> Strip(segments[i].text) ]]

\* C10: the attributed timeline and the conversation saved with the result are
\* the transcription's segments of non-empty trimmed text, in their order
C10_TimelineIsNonBlankSubsequence ==
    \A j \in Jobs :
        /\ transcription_result[j] # Unset
           => Spans(Dialogue(j)) = Spans(SelectSeq(transcription[j].segments, NonBlank))
        /\ j \in DOMAIN db_analysis_results
           => Spans(JsonLoads(db_analysis_results[j].conversation_data))
                = Spans(SelectSeq(transcription[j].segments, NonBlank))

C10_Witness ==
    /\ "j1" \in DOMAIN db_analysis_results
    /\ Len(JsonLoads(db_analysis_results["j1"].conversation_data)) = 2
    /\ Len(transcription["j1"].segments) = 3
    /\ ~NonBlank(transcription["j1"].segments[1])

\* the last dict update_progress or upload_audio put in the tracker for the job
LastWritten(j) == log[j][Len(log[j])]

\* C11: with two pipeline runs interleaved, the tracker entry of a job is the
\* dict last written for that job, whole, and a status read returns its fields
C11_ReadReturnsLastWrite ==
    \A j \in Jobs :
        log[j] # << >>
        => /\ j \in DOMAIN processing_status
           /\ processing_status[j] = LastWritten(j)
           /\ ProcessingStatusFields \subseteq DOMAIN LastWritten(j)
              => get_analysis_status(j).body = [x \in ProcessingStatusFields |-> LastWritten(j)[x]]

\* both tasks are suspended in a broadcast, each after several writes of its own
C11_Witness ==
    /\ pc["j1"] = "broadcast" /\ pc["j2"] = "broadcast"
    /\ Len(log["j1"]) >= 4 /\ Len(log["j2"]) >= 2
    /\ processing_status["j1"].progress # processing_status["j2"].progress

\* this step is the last of the broadcast task j is suspended in
BroadcastEnds(j) ==
    /\ pc[j] = "broadcast"
    /\ pc'[j] # "broadcast" \/ bcast'[j].k # bcast[j].k

\* the connections the broadcast has delivered to when its step is taken
DeliveredBy(j) == bcast[j].got \cup (IF SendFails(bcast[j].cur) THEN {} ELSE {bcast[j].cur})

\* C12: a broadcast delivers to every connection that was registered when it was
\* called and whose send can succeed, and a connection whose send fails is no
\* longer registered after the step
C12_BroadcastReachesAll ==
    [][ \A j \in Jobs :
          /\ BroadcastEnds(j)
             => \A i \in 1..Len(bcast[j].at_call) :
                   ws[bcast[j].at_call[i]] = "open" => bcast[j].at_call[i] \in DeliveredBy(j)
          /\ (pc[j] = "broadcast" /\ bcast'[j] # bcast[j] /\ SendFails(bcast[j].cur))
             => ~InList(active_connections', bcast[j].cur) ]_vars

\* C13: an upload whose industry is not one of the five is answered 400 and
\* changes neither the tracker, the stored statuses nor the tasks; no job exists
\* with another industry
C13_InvalidIndustryCreatesNoJob ==
    [][ /\ (http_status' = 400 /\ http_status # 400)
           => UNCHANGED << processing_status, db_processing_status, db_analysis_results,
                           task, pc, log >>
        /\ \A j \in Jobs :
              (pc'[j] # "new" \/ j \in DOMAIN processing_status' \/ j \in DOMAIN db_processing_status')
              => /\ task'[j] # Unset
                 /\ task'[j].industry \in VALID_INDUSTRIES ]_vars

C13_Witness ==
    /\ http_status = 400
    /\ processing_status = << >>
    /\ db_processing_status = << >>
    /\ \A j \in Jobs : pc[j] = "new"

\* C14: after a record with status completed or error, every later record
\* written for the job has the same status
C14_TerminalIsAbsorbing ==
    \A j \in Jobs : \A i \in 1..Len(log[j]) : \A k \in (i + 1)..Len(log[j]) :
        log[j][i].status \in {"completed", "error"} => log[j][k].status = log[j][i].status

\* a record is written after the failed save was recorded
C14_Witness ==
    /\ Len(log["j1"]) >= 2
    /\ log["j1"][Len(log["j1"]) - 1] = SaveFailed("j1")
    /\ log["j1"][Len(log["j1"])].stage = "error"

\* C15: no exception leaves process_audio_file, and a job that ended after a
\* fault has a record with status error and a message
C15_NoFaultEscapes ==
    \A j \in Jobs :
        /\ pc[j] # "crashed"
        /\ (Ended(j) /\ \E i \in 1..Len(log[j]) : log[j][i].status = "error")
           => (Record(j).status = "error" /\ Record(j).message # << >>)

\* C16: the first record of a job is the one of submission, written before the
\* task starts; the stage records come after it
C16_InitialRecordFirst ==
    \A j \in Jobs :
        /\ pc[j] # "new" => log[j] # << >>
        /\ log[j] # << >>
           => /\ log[j][1].status = "processing"
              /\ log[j][1].progress = 0
              /\ log[j][1].stage = "upload"
              /\ \A i \in 2..Len(log[j]) : log[j][i].stage # "upload"

C16_Witness ==
    /\ Len(log["j1"]) >= 2
    /\ log["j1"][1].stage = "upload"
    /\ log["j1"][2] = TranscriptionStarted("j1")
    /\ pc["j2"] = "queued"

\* the except clause ran for the ValueError of list.remove
RemoveRaised(j) ==
    \E i \in 1..Len(log[j]) : log[j][i] = ProcessingFailed(j, "list.remove(x): x not in list")

\* C17: list.remove never raises out of broadcast, so no job gets an error
\* record, or ends by an exception, because of a connection
C17_DepartingSubscriberHarmless ==
    \A j \in Jobs : ~RemoveRaised(j) /\ pc[j] # "crashed"

\* C18: when the record of an ended job has status error, the stored
\* processing status of the job is error too
C18_ErrorIsPersisted ==
    \A j \in Jobs :
        (Ended(j) /\ Record(j).status = "error")
        => /\ j \in DOMAIN db_processing_status
           /\ db_processing_status[j].status = "error"

\* submitted and not ended
Live(j) == pc[j] \notin {"new", "done", "crashed"}

\* C19: a job that is submitted and has not ended has a record in the tracker
C19_LiveJobHasRecord ==
    \A j \in Jobs : Live(j) => j \in DOMAIN processing_status

\* C20: every record in the tracker has the job id, status, progress, stage,
\* message and timestamp, and a status read of its job answers 200
C20_RecordsAreComplete ==
    \A j \in DOMAIN processing_status :
        /\ (ProcessingStatusFields \cup {"timestamp"}) \subseteq DOMAIN processing_status[j]
        /\ get_analysis_status(j).status_code = 200

\* the label the classifier is confident of for the text ("None": no classifier,
\* the classifier raises, no scores, or the top score is below the threshold)
ConfidentLabel(classifier, text) ==
    IF ~classifier.loaded THEN "None"
    ELSE IF "textcat" \notin classifier.pipe_names THEN "None"
    ELSE IF classifier.doc[text].raises THEN "None"
    ELSE IF DOMAIN classifier.doc[text].scores = {} THEN "None"
    ELSE IF classifier.doc[text].scores[TopLabel(classifier.doc[text].scores)] >= ConfidenceThreshold
         THEN TopLabel(classifier.doc[text].scores)
         ELSE "None"

\* C21: an attributed segment after the first has the label the classifier is
\* confident of, and otherwise the speaker opposite to the one of the attributed
\* segment before it
C21_AdoptOrAlternate ==
    \A j \in Jobs :
        transcription_result[j] # Unset
        => \A k \in 2..Len(Dialogue(j)) :
              IF ConfidentLabel(nlp, Dialogue(j)[k].text) # "None"
              THEN Dialogue(j)[k].speaker = ConfidentLabel(nlp, Dialogue(j)[k].text)
              ELSE {Dialogue(j)[k - 1].speaker, Dialogue(j)[k].speaker} = {"Agent", "Customer"}

\* C22: every segment of an attributed timeline, and of the conversation saved
\* from it, has the speaker Agent or Customer
C22_SpeakerIsAgentOrCustomer ==
    \A j \in Jobs :
        /\ transcription_result[j] # Unset
           => \A k \in 1..Len(Dialogue(j)) : Dialogue(j)[k].speaker \in {"Agent", "Customer"}
        /\ j \in DOMAIN db_analysis_results
           => \A k \in 1..Len(JsonLoads(db_analysis_results[j].conversation_data)) :
                 JsonLoads(db_analysis_results[j].conversation_data)[k].speaker \in {"Agent", "Customer"}

\* the transcription cut after its first n segments
Prefix(tr, n) == [tr EXCEPT !.segments = SubSeq(tr.segments, 1, n)]

\* C23: the attribution of the first n segments of a transcription is the
\* beginning of the attribution of the whole transcription
C23_PrefixOfAttribution ==
    \A j \in Jobs :
        (transcription_result[j] # Unset /\ "error" \notin DOMAIN transcription[j])
        => \A n \in 0..Len(transcription[j].segments) :
              LET part == perform_speaker_diarization(nlp, Prefix(transcription[j], n))
              IN /\ Len(part) <= Len(Dialogue(j))
                 /\ part = SubSeq(Dialogue(j), 1, Len(part))

\* three attributed segments under a classifier that is confident of a later one
C23_Witness ==
    /\ ~NoClassifier
    /\ transcription_result["j1"] # Unset
    /\ Len(Dialogue("j1")) = 3
    /\ ConfidentLabel(nlp, Dialogue("j1")[3].text) # "None"
    /\ ConfidentLabel(nlp, Dialogue("j1")[2].text) = "None"

\* the number of segments of the transcription with text left after trimming
NonBlankCount(tr) == Cardinality({ i \in 1..Len(tr.segments) : NonBlank(tr.segments[i]) })

\* the task went on to the analysis
ReachedAnalysis(j) == \E i \in 1..Len(log[j]) : log[j][i] = AnalysisStarted(j)

\* C24: a transcription without segments is attributed the empty timeline with
\* no error in the result, and one with exactly one non-empty segment is
\* attributed [Agent], participant count 1, and the task goes on to the analysis
C24_EmptyAndSingle ==
    \A j \in Jobs :
        (transcription_result[j] # Unset /\ "error" \notin DOMAIN transcription[j])
        => /\ transcription[j].segments = << >>
              => (Dialogue(j) = << >> /\ "error" \notin DOMAIN transcription_result[j])
           /\ NonBlankCount(transcription[j]) = 1
              => /\ Len(Dialogue(j)) = 1
                 /\ Dialogue(j)[1].speaker = "Agent"
                 /\ transcription_result[j].participant_count = 1
                 /\ ReachedAnalysis(j)

\* a segment starts before the one in front of it
OutOfOrder(tr) == \E i \in 1..(Len(tr.segments) - 1) : tr.segments[i + 1].start < tr.segments[i].start

\* C25: a transcription whose start times decrease somewhere is not attributed
\* and not saved: its attribution is refused or carries an error
C25_OutOfOrderIsRejected ==
    \A j \in Jobs :
        (transcription[j] # Unset /\ "error" \notin DOMAIN transcription[j] /\ OutOfOrder(transcription[j]))
        => /\ transcription_result[j] = Unset \/ "error" \in DOMAIN transcription_result[j]
           /\ j \notin DOMAIN db_analysis_results

\* C26: while a stage is awaited the stages before it have returned and the
\* stage itself and those after it have not, and a result is only there when
\* the results of the stages before it are
C26_StagesInOrderOnce ==
    \A j \in Jobs :
        /\ pc[j] = "transcribe"
           => (transcription[j] = Unset /\ transcription_result[j] = Unset
               /\ analysis_result[j] = Unset /\ success[j] = "unset")
        /\ pc[j] = "diarize"
           => (transcription[j] # Unset /\ transcription_result[j] = Unset
               /\ analysis_result[j] = Unset /\ success[j] = "unset")
        /\ pc[j] = "analyze"
           => (transcription[j] # Unset /\ transcription_result[j] # Unset
               /\ analysis_result[j] = Unset /\ success[j] = "unset")
        /\ pc[j] = "save"
           => (transcription[j] # Unset /\ transcription_result[j] # Unset
               /\ analysis_result[j] # Unset /\ success[j] = "unset")
        /\ success[j] # "unset" => analysis_result[j] # Unset
        /\ analysis_result[j] # Unset => transcription_result[j] # Unset
        /\ transcription_result[j] # Unset => transcription[j] # Unset

C26_Witness ==
    /\ pc["j1"] = "done"
    /\ success["j1"] = "None"
    /\ "j1" \in DOMAIN db_analysis_results
    /\ active_connections # << >>

\* C27: a step that writes a record for one job leaves the tracker entry of
\* every other job as it was
C27_UpdateLeavesOthers ==
    [][ \A j \in Jobs, k \in Jobs :
          (j # k /\ log'[k] # log[k] /\ j \in DOMAIN processing_status)
          => /\ j \in DOMAIN processing_status'
             /\ processing_status'[j] = processing_status[j] ]_vars

\* one job has ended with its error record while the other is still running
C27_Witness ==
    /\ pc["j1"] = "done"
    /\ pc["j2"] = "diarize"
    /\ processing_status["j1"].status = "error"
    /\ processing_status["j2"] = DiarizationStarted("j2")

\* C28: an ended job has a result row exactly when its record is completed, and
\* the stored status completed is only there with the row
C28_RowIffCompleted ==
    \A j \in Jobs :
        /\ Ended(j) => (j \in DOMAIN db_analysis_results <=> Record(j).status = "completed")
        /\ (j \in DOMAIN db_processing_status /\ db_processing_status[j].status = "completed")
           => j \in DOMAIN db_analysis_results

Stages == { "upload", "transcription", "analysis", "saving", "visualization", "completed", "error" }

ConsistentRecord(r) ==
    /\ r.status \in {"processing", "completed", "error"}
    /\ r.progress \in 0..100
    /\ r.stage \in Stages
    /\ r.status = "completed" <=> (r.progress = 100 /\ r.stage = "completed")
    /\ r.status = "error" => r.progress = 0

\* C29: every record written for a job is consistent in status, progress and
\* stage, and so are the records of the branches that were not taken
C29_RecordsAreConsistent ==
    \A j \in Jobs :
        /\ \A i \in 1..Len(log[j]) : ConsistentRecord(log[j][i])
        /\ ConsistentRecord(Completed(j))
        /\ ConsistentRecord(TranscriptionFailed(j))
        /\ ConsistentRecord(DiarizationFailed(j))

C29_Witness ==
    /\ Len(log["j1"]) >= 9
    /\ log["j1"][7] = Visualizing("j1")
    /\ log["j1"][9].stage = "error"

\* C30: a broadcast for any job delivers to every connection that was registered
\* when it was called and can be sent to, whichever job the connection was
\* opened for, and the loop of a connection sends the record of its own job only
C30_BroadcastCrossesJobs ==
    [][ /\ \A j \in Jobs :
              BroadcastEnds(j)
              => \A c \in Conns :
                    (InList(bcast[j].at_call, c) /\ ws[c] = "open" /\ analysis_id_of[c] \in Jobs)
                    => c \in DeliveredBy(j)
        /\ \A c \in Conns :
              PollMessage(c) # << >> => PollMessage(c) = << processing_status[analysis_id_of[c]] >> ]_vars

====
